---- MODULE Spec2Model ----
(***************************************************************************)
(* `consul acl binding-rule update`: command/acl/bindingrule/update.        *)
(* One invocation of cmd.Run is a process that parses its flags, resolves  *)
(* a partial rule id, reads the current binding rule, plans the record to  *)
(* submit (merge or overwrite) and calls the update endpoint.  The ACL     *)
(* store is shared between invocations and other clients; every remote    *)
(* call (list, read, update) is one atomic step.                           *)
(***************************************************************************)
EXTENDS Integers, Sequences, FiniteSets, TLC

VARIABLES
    store,        \* the remote ACL store: rule id -> binding rule
    store0,       \* the store as it was before any invocation (history)
    raftIndex,    \* the store's last assigned raft index
    envOps,       \* number of changes made by other clients
    writes,       \* log of accepted updates: <<[by, rule]>> (history)
    c,            \* per invocation: the cmd struct after flags.Parse
    pc,           \* per invocation: position in Run
    ruleID,       \* per invocation: local ruleID (line 113)
    listed,       \* per invocation: <<the ids the candidate source returned>> (history)
    currentRule,  \* per invocation: local currentRule (line 120)
    fetched,      \* per invocation: what BindingRuleRead returned (history)
    readArg,      \* per invocation: the id passed to BindingRuleRead (history)
    rule,         \* per invocation: local rule (line 129)
    submitted,    \* per invocation: the record passed to BindingRuleUpdate (history)
    calls,        \* per invocation: remote calls made so far (history)
    ret,          \* per invocation: Run's return value, -1 while running
    err           \* per invocation: the kind of error reported through UI.Error

vars == <<store, store0, raftIndex, envOps, writes, c, pc, ruleID, listed,
          currentRule, fetched, readArg, rule, submitted, calls, ret, err>>

(***************************************************************************)
(* Bounds                                                                  *)
(***************************************************************************)
\* how many times other clients may delete a rule during a run
MaxEnvOps == 1

\* the invocations of the concurrent specification
ConcInv == {1, 2}

(***************************************************************************)
(* Data                                                                    *)
(***************************************************************************)
\* a nil *api.ACLBindingRule
NilRule == [nil |-> TRUE]

\* api.BindingRuleRoleBindTypeService, the default of -role-bind-type
BindingRuleRoleBindTypeService == "service"

IdA == "43cb72df-aaa"
IdB == "43cb72df-bbb"

\* the rule ids a user may type: empty, shared prefix, unique prefixes,
\* a full id, a prefix in the wrong case, and a prefix of nothing
PartialIDs == {"", "43cb72df", "43cb72df-a", "43cb72df-b", IdA, "43CB72DF", "9f"}

Rule(id, idp, desc, bind, role, sel, idx) ==
    [ID |-> id, IDPName |-> idp, Description |-> desc, RoleBindType |-> bind,
     RoleName |-> role, Selector |-> sel, ModifyIndex |-> idx]

\* two contents a stored rule may start with: all fields filled, optional ones empty
FullContent(id)  == Rule(id, "k8s", "old", "existing", "old-role", "x==1", 1)
BareContent(id)  == Rule(id, "jwt", "", "service", "r", "", 1)

InitIDSets == {{IdA, IdB}, {IdA}}

InitStores == UNION {[S -> {"full", "bare"}] : S \in InitIDSets}

MkStore(shape) ==
    [id \in DOMAIN shape |->
        IF shape[id] = "full" THEN FullContent(id) ELSE BareContent(id)]

(***************************************************************************)
(* The flag set: cmd.init registers the flags with their defaults; after   *)
(* Parse a flag holds its default unless it was passed, and flag.Visit     *)
(* visits exactly the flags that were passed.                              *)
(***************************************************************************)
\* the ways one string flag can appear on the command line
Arg(default, vals) ==
    {[set |-> FALSE, val |-> default]} \cup {[set |-> TRUE, val |-> v] : v \in vals}

Passed(d, s, b, r) ==
    (IF d.set THEN {"description"} ELSE {}) \cup
    (IF s.set THEN {"selector"} ELSE {}) \cup
    (IF b.set THEN {"role-bind-type"} ELSE {}) \cup
    (IF r.set THEN {"role-name"} ELSE {})

init(ok, id, d, s, b, r, nm) ==
    [parseOK |-> ok, ruleID |-> id, description |-> d.val, selector |-> s.val,
     roleBindType |-> b.val, roleName |-> r.val, noMerge |-> nm,
     flags |-> Passed(d, s, b, r)]

DescArgs == Arg("", {"", "new desc"})
SelArgs  == Arg("", {"", "x==2"})
BindArgs == Arg(BindingRuleRoleBindTypeService, {"", "existing", "bogus"})
RoleArgs == Arg("", {"", "new-role"})

\* a command line flags.Parse rejects
BadArgs ==
    init(FALSE, "", [set |-> FALSE, val |-> ""], [set |-> FALSE, val |-> ""],
         [set |-> FALSE, val |-> BindingRuleRoleBindTypeService],
         [set |-> FALSE, val |-> ""], FALSE)

Inputs ==
    {init(TRUE, id, d, s, b, r, nm) :
        id \in PartialIDs, d \in DescArgs, s \in SelArgs, b \in BindArgs,
        r \in RoleArgs, nm \in BOOLEAN} \cup {BadArgs}

NoArg(default) == [set |-> FALSE, val |-> default]
Given(v) == [set |-> TRUE, val |-> v]

\* the command lines of the concurrent specification
ConcInputs ==
    { init(TRUE, "43cb72df-a", Given("new desc"), NoArg(""), NoArg("service"), NoArg(""), FALSE),
      init(TRUE, IdA, NoArg(""), Given("x==2"), NoArg("service"), NoArg(""), FALSE),
      init(TRUE, "43cb72df-a", NoArg(""), NoArg(""), Given("service"), NoArg(""), FALSE),
      init(TRUE, "43cb72df-a", NoArg(""), NoArg(""), NoArg("service"), Given("new-role"), FALSE),
      init(TRUE, "43cb72df-a", Given("new desc"), NoArg(""), NoArg("service"), Given("new-role"), TRUE),
      init(TRUE, "43cb72df-a", NoArg(""), Given("x==2"), NoArg("service"), NoArg(""), TRUE),
      init(TRUE, "43cb72df", Given("new desc"), NoArg(""), NoArg("service"), NoArg(""), FALSE),
      init(TRUE, "9f", Given("new desc"), NoArg(""), NoArg("service"), NoArg(""), FALSE),
      init(TRUE, "", Given("new desc"), NoArg(""), NoArg("service"), NoArg(""), FALSE),
      BadArgs }

(***************************************************************************)
(* Identifier resolution: acl.GetBindingRuleIDFromPartial                  *)
(***************************************************************************)
HasPrefix(s, prefix) ==
    Len(prefix) <= Len(s) /\ SubSeq(s, 1, Len(prefix)) = prefix

PrefixMatches(candidates, partial) ==
    {id \in candidates : HasPrefix(id, partial)}

GetBindingRuleIDFromPartial(candidates, partial) ==
    LET m == PrefixMatches(candidates, partial) IN
    IF m = {} THEN [id |-> "", err |-> "NotFound"]
    ELSE IF Cardinality(m) > 1 THEN [id |-> "", err |-> "AmbiguousPrefix"]
    ELSE [id |-> CHOOSE id \in m : TRUE, err |-> ""]

(***************************************************************************)
(* Planning: the two branches of Run, lines 129-161                        *)
(***************************************************************************)
\* mutant: the visitor forgets to compare the flag's name
isFlagSet_AnyVisited(flags, name) == flags # {}

isFlagSet(flags, name) == name \in flags

\* mutant: the id is taken from the -id flag instead of the resolved id
OverwriteRule_RawID(id, current, cmd) ==
    [ID           |-> cmd.ruleID,
     IDPName      |-> current.IDPName,
     Description  |-> cmd.description,
     RoleBindType |-> cmd.roleBindType,
     RoleName     |-> cmd.roleName,
     Selector     |-> cmd.selector,
     ModifyIndex  |-> 0]

\* mutant: an empty -description falls back to the current description
OverwriteRule_KeepDescription(id, current, cmd) ==
    [ID           |-> id,
     IDPName      |-> current.IDPName,
     Description  |-> IF cmd.description = "" THEN current.Description
                      ELSE cmd.description,
     RoleBindType |-> cmd.roleBindType,
     RoleName     |-> cmd.roleName,
     Selector     |-> cmd.selector,
     ModifyIndex  |-> 0]

\* lines 137-144: a fresh struct; ModifyIndex keeps its zero value
OverwriteRule(id, current, cmd) ==
    [ID           |-> id,
     IDPName      |-> current.IDPName,
     Description  |-> cmd.description,
     RoleBindType |-> cmd.roleBindType,
     RoleName     |-> cmd.roleName,
     Selector     |-> cmd.selector,
     ModifyIndex  |-> 0]

\* mutant: description is replaced whenever -description was passed
MergeRule_DescriptionByFlag(current, cmd) ==
    LET r1 == IF "description" \in cmd.flags
              THEN [current EXCEPT !.Description = cmd.description] ELSE current
        r2 == IF cmd.roleName # ""
              THEN [r1 EXCEPT !.RoleName = cmd.roleName] ELSE r1
        r3 == IF "role-bind-type" \in cmd.flags
              THEN [r2 EXCEPT !.RoleBindType = cmd.roleBindType] ELSE r2
        r4 == IF "selector" \in cmd.flags
              THEN [r3 EXCEPT !.Selector = cmd.selector] ELSE r3
    IN r4

\* mutant: the description is appended to instead of replaced
MergeRule_AppendDescription(current, cmd) ==
    LET r1 == IF cmd.description # ""
              THEN [current EXCEPT !.Description = @ \o cmd.description] ELSE current
        r2 == IF cmd.roleName # ""
              THEN [r1 EXCEPT !.RoleName = cmd.roleName] ELSE r1
        r3 == IF "role-bind-type" \in cmd.flags
              THEN [r2 EXCEPT !.RoleBindType = cmd.roleBindType] ELSE r2
        r4 == IF "selector" \in cmd.flags
              THEN [r3 EXCEPT !.Selector = cmd.selector] ELSE r3
    IN r4

\* mutant: the selector is assigned without asking whether -selector was passed
MergeRule_SelectorAlways(current, cmd) ==
    LET r1 == IF cmd.description # ""
              THEN [current EXCEPT !.Description = cmd.description] ELSE current
        r2 == IF cmd.roleName # ""
              THEN [r1 EXCEPT !.RoleName = cmd.roleName] ELSE r1
        r3 == IF "role-bind-type" \in cmd.flags
              THEN [r2 EXCEPT !.RoleBindType = cmd.roleBindType] ELSE r2
    IN [r3 EXCEPT !.Selector = cmd.selector]

\* lines 147-160: the fetched struct, mutated field by field
MergeRule(current, cmd) ==
    LET r1 == IF cmd.description # ""
              THEN [current EXCEPT !.Description = cmd.description] ELSE current
        r2 == IF cmd.roleName # ""
              THEN [r1 EXCEPT !.RoleName = cmd.roleName] ELSE r1
        r3 == IF isFlagSet(cmd.flags, "role-bind-type")
              THEN [r2 EXCEPT !.RoleBindType = cmd.roleBindType] ELSE r2
        r4 == IF isFlagSet(cmd.flags, "selector")
              THEN [r3 EXCEPT !.Selector = cmd.selector] ELSE r3
    IN r4

\* mutant: the current rule is read with the raw -id value
ReadID_Raw(i) == c[i].ruleID

\* line 120: the id Run reads the current rule with
ReadID(i) == ruleID[i]

(***************************************************************************)
(* Initial states                                                          *)
(***************************************************************************)
InitLocals(P) ==
    /\ pc = [i \in P |-> "start"]
    /\ ruleID = [i \in P |-> ""]
    /\ listed = [i \in P |-> <<>>]
    /\ currentRule = [i \in P |-> NilRule]
    /\ fetched = [i \in P |-> NilRule]
    /\ readArg = [i \in P |-> ""]
    /\ rule = [i \in P |-> NilRule]
    /\ submitted = [i \in P |-> NilRule]
    /\ calls = [i \in P |-> <<>>]
    /\ ret = [i \in P |-> -1]
    /\ err = [i \in P |-> ""]

InitStore(shapes) ==
    /\ \E shape \in shapes : store = MkStore(shape)
    /\ store0 = store
    /\ raftIndex = 1
    /\ envOps = 0
    /\ writes = <<>>

\* one invocation, any command line, any initial store
Init ==
    /\ InitStore(InitStores)
    /\ c \in [{1} -> Inputs]
    /\ InitLocals({1})

\* two invocations racing on a store holding both rules
InitConc ==
    /\ InitStore({[id \in {IdA, IdB} |-> "full"]})
    /\ c \in [ConcInv -> ConcInputs]
    /\ InitLocals(ConcInv)

(***************************************************************************)
(* Run, lines 97-172                                                       *)
(***************************************************************************)
\* `return code' after reporting an error of the given kind
Return(i, code, kind) ==
    /\ pc' = [pc EXCEPT ![i] = "done"]
    /\ ret' = [ret EXCEPT ![i] = code]
    /\ err' = [err EXCEPT ![i] = kind]

Goto(i, label) ==
    /\ pc' = [pc EXCEPT ![i] = label]
    /\ UNCHANGED <<ret, err>>

StoreUnchanged == UNCHANGED <<store, store0, raftIndex, envOps, writes>>

\* lines 98-100: flags.Parse fails
ParseFail(i) ==
    /\ pc[i] = "start"
    /\ ~c[i].parseOK
    /\ Return(i, 1, "ParseError")
    /\ StoreUnchanged
    /\ UNCHANGED <<c, ruleID, listed, currentRule, fetched, readArg, rule, submitted, calls>>

\* mutant: the error is reported but Run does not return
MissingID_FallThrough(i) ==
    /\ pc[i] = "start"
    /\ c[i].parseOK
    /\ c[i].ruleID = ""
    /\ pc' = [pc EXCEPT ![i] = "resolve"]
    /\ err' = [err EXCEPT ![i] = "MissingIdentifier"]
    /\ UNCHANGED ret
    /\ StoreUnchanged
    /\ UNCHANGED <<c, ruleID, listed, currentRule, fetched, readArg, rule, submitted, calls>>

\* lines 102-105: no -id
MissingID(i) ==
    /\ pc[i] = "start"
    /\ c[i].parseOK
    /\ c[i].ruleID = ""
    /\ Return(i, 1, "MissingIdentifier")
    /\ StoreUnchanged
    /\ UNCHANGED <<c, ruleID, listed, currentRule, fetched, readArg, rule, submitted, calls>>

\* lines 107-111: the API client cannot be built
ClientFail(i) ==
    /\ pc[i] = "start"
    /\ c[i].parseOK
    /\ c[i].ruleID # ""
    /\ Return(i, 1, "TransportError")
    /\ StoreUnchanged
    /\ UNCHANGED <<c, ruleID, listed, currentRule, fetched, readArg, rule, submitted, calls>>

\* lines 98-112: parsed, id given, client built
Start(i) ==
    /\ pc[i] = "start"
    /\ c[i].parseOK
    /\ c[i].ruleID # ""
    /\ Goto(i, "resolve")
    /\ StoreUnchanged
    /\ UNCHANGED <<c, ruleID, listed, currentRule, fetched, readArg, rule, submitted, calls>>

\* lines 113-117: the candidate source fails
ResolveErr(i) ==
    /\ pc[i] = "resolve"
    /\ calls' = [calls EXCEPT ![i] = Append(@, "list")]
    /\ Return(i, 1, "TransportError")
    /\ StoreUnchanged
    /\ UNCHANGED <<c, ruleID, listed, currentRule, fetched, readArg, rule, submitted>>

\* lines 113-117: the candidates are listed and the partial id does not resolve
ResolveFail(i) ==
    /\ pc[i] = "resolve"
    /\ LET r == GetBindingRuleIDFromPartial(DOMAIN store, c[i].ruleID) IN
        /\ r.err # ""
        /\ Return(i, 1, r.err)
    /\ calls' = [calls EXCEPT ![i] = Append(@, "list")]
    /\ listed' = [listed EXCEPT ![i] = <<DOMAIN store>>]
    /\ StoreUnchanged
    /\ UNCHANGED <<c, ruleID, currentRule, fetched, readArg, rule, submitted>>

\* line 113: the partial id resolves
Resolve(i) ==
    /\ pc[i] = "resolve"
    /\ LET r == GetBindingRuleIDFromPartial(DOMAIN store, c[i].ruleID) IN
        /\ r.err = ""
        /\ ruleID' = [ruleID EXCEPT ![i] = r.id]
    /\ calls' = [calls EXCEPT ![i] = Append(@, "list")]
    /\ listed' = [listed EXCEPT ![i] = <<DOMAIN store>>]
    /\ Goto(i, "fetch")
    /\ StoreUnchanged
    /\ UNCHANGED <<c, currentRule, fetched, readArg, rule, submitted>>

\* lines 120-123: BindingRuleRead fails
FetchErr(i) ==
    /\ pc[i] = "fetch"
    /\ calls' = [calls EXCEPT ![i] = Append(@, "read")]
    /\ readArg' = [readArg EXCEPT ![i] = ReadID(i)]
    /\ Return(i, 1, "TransportError")
    /\ StoreUnchanged
    /\ UNCHANGED <<c, ruleID, listed, currentRule, fetched, rule, submitted>>

\* lines 120-127: BindingRuleRead finds no rule and reports no error
FetchNil(i) ==
    /\ pc[i] = "fetch"
    /\ ReadID(i) \notin DOMAIN store
    /\ calls' = [calls EXCEPT ![i] = Append(@, "read")]
    /\ readArg' = [readArg EXCEPT ![i] = ReadID(i)]
    /\ Return(i, 1, "NotFound")
    /\ StoreUnchanged
    /\ UNCHANGED <<c, ruleID, listed, currentRule, fetched, rule, submitted>>

\* line 120: BindingRuleRead returns the current rule
Fetch(i) ==
    /\ pc[i] = "fetch"
    /\ ReadID(i) \in DOMAIN store
    /\ calls' = [calls EXCEPT ![i] = Append(@, "read")]
    /\ readArg' = [readArg EXCEPT ![i] = ReadID(i)]
    /\ currentRule' = [currentRule EXCEPT ![i] = store[ReadID(i)]]
    /\ fetched' = [fetched EXCEPT ![i] = store[ReadID(i)]]
    /\ Goto(i, "plan")
    /\ StoreUnchanged
    /\ UNCHANGED <<c, ruleID, listed, rule, submitted>>

\* mutant: -role-name is required in merge mode too
PlanMissingRoleName_AnyMode(i) ==
    /\ pc[i] = "plan"
    /\ c[i].roleName = ""
    /\ Return(i, 1, "MissingRequiredField")
    /\ StoreUnchanged
    /\ UNCHANGED <<c, ruleID, listed, currentRule, fetched, readArg, rule, submitted, calls>>

\* lines 130-135: -no-merge without -role-name
PlanMissingRoleName(i) ==
    /\ pc[i] = "plan"
    /\ c[i].noMerge
    /\ c[i].roleName = ""
    /\ Return(i, 1, "MissingRequiredField")
    /\ StoreUnchanged
    /\ UNCHANGED <<c, ruleID, listed, currentRule, fetched, readArg, rule, submitted, calls>>

\* lines 130-145: -no-merge
PlanOverwrite(i) ==
    /\ pc[i] = "plan"
    /\ c[i].noMerge
    /\ c[i].roleName # ""
    /\ rule' = [rule EXCEPT ![i] = OverwriteRule(ruleID[i], currentRule[i], c[i])]
    /\ Goto(i, "update")
    /\ StoreUnchanged
    /\ UNCHANGED <<c, ruleID, listed, currentRule, fetched, readArg, submitted, calls>>

\* lines 146-161: merge; rule aliases currentRule
PlanMerge(i) ==
    /\ pc[i] = "plan"
    /\ ~c[i].noMerge
    /\ rule' = [rule EXCEPT ![i] = MergeRule(currentRule[i], c[i])]
    /\ currentRule' = [currentRule EXCEPT ![i] = rule'[i]]
    /\ Goto(i, "update")
    /\ StoreUnchanged
    /\ UNCHANGED <<c, ruleID, listed, fetched, readArg, submitted, calls>>

\* mutant: the update error is reported but Run returns 0
UpdateErr_ReturnsZero(i) ==
    /\ pc[i] = "update"
    /\ calls' = [calls EXCEPT ![i] = Append(@, "update")]
    /\ submitted' = [submitted EXCEPT ![i] = rule[i]]
    /\ Return(i, 0, "UpdateError")
    /\ StoreUnchanged
    /\ UNCHANGED <<c, ruleID, listed, currentRule, fetched, readArg, rule>>

\* lines 163-167: BindingRuleUpdate fails (transport, validation, or rule gone)
UpdateErr(i) ==
    /\ pc[i] = "update"
    /\ calls' = [calls EXCEPT ![i] = Append(@, "update")]
    /\ submitted' = [submitted EXCEPT ![i] = rule[i]]
    /\ Return(i, 1, "UpdateError")
    /\ StoreUnchanged
    /\ UNCHANGED <<c, ruleID, listed, currentRule, fetched, readArg, rule>>

\* lines 163-171: BindingRuleUpdate stores the rule under the next raft index
Update(i) ==
    /\ pc[i] = "update"
    /\ rule[i].ID \in DOMAIN store
    /\ LET stored == [rule[i] EXCEPT !.ModifyIndex = raftIndex + 1] IN
        /\ store' = [store EXCEPT ![rule[i].ID] = stored]
        /\ writes' = Append(writes, [by |-> i, rule |-> stored])
        /\ rule' = [rule EXCEPT ![i] = stored]
    /\ raftIndex' = raftIndex + 1
    /\ calls' = [calls EXCEPT ![i] = Append(@, "update")]
    /\ submitted' = [submitted EXCEPT ![i] = rule[i]]
    /\ Return(i, 0, "")
    /\ UNCHANGED <<store0, envOps>>
    /\ UNCHANGED <<c, ruleID, listed, currentRule, fetched, readArg>>

\* another client deletes a binding rule
EnvDelete ==
    /\ envOps < MaxEnvOps
    /\ \E id \in DOMAIN store :
        store' = [k \in DOMAIN store \ {id} |-> store[k]]
    /\ envOps' = envOps + 1
    /\ raftIndex' = raftIndex + 1
    /\ UNCHANGED <<store0, writes>>
    /\ UNCHANGED <<c, pc, ruleID, listed, currentRule, fetched, readArg, rule,
                   submitted, calls, ret, err>>

Next ==
    \/ \E i \in DOMAIN pc : ParseFail(i)
    \/ \E i \in DOMAIN pc : MissingID(i)
    \/ \E i \in DOMAIN pc : ClientFail(i)
    \/ \E i \in DOMAIN pc : Start(i)
    \/ \E i \in DOMAIN pc : ResolveErr(i)
    \/ \E i \in DOMAIN pc : ResolveFail(i)
    \/ \E i \in DOMAIN pc : Resolve(i)
    \/ \E i \in DOMAIN pc : FetchErr(i)
    \/ \E i \in DOMAIN pc : FetchNil(i)
    \/ \E i \in DOMAIN pc : Fetch(i)
    \/ \E i \in DOMAIN pc : PlanMissingRoleName(i)
    \/ \E i \in DOMAIN pc : PlanOverwrite(i)
    \/ \E i \in DOMAIN pc : PlanMerge(i)
    \/ \E i \in DOMAIN pc : UpdateErr(i)
    \/ \E i \in DOMAIN pc : Update(i)
    \/ EnvDelete

Spec == Init /\ [][Next]_vars

SpecConc == InitConc /\ [][Next]_vars

(***************************************************************************)
(* Properties                                                              *)
(***************************************************************************)
Procs == DOMAIN pc

Submitted(i) == submitted[i] # NilRule

\* planning ran to its end: a rule was fetched and Run left the plan stage
Planned(i) == fetched[i] # NilRule /\ pc[i] # "plan"

WritesBy(i) == {k \in 1..Len(writes) : writes[k].by = i}

\* C1: whenever Run reaches the update call, the record it submits carries the
\* id and the IDPName of the record it fetched, in merge and in overwrite mode.
C1_ImmutableFromCurrent ==
    \A i \in Procs :
        Submitted(i) =>
            /\ submitted[i].ID = fetched[i].ID
            /\ submitted[i].IDPName = fetched[i].IDPName

\* an overwrite submitted after a truncated -id: the id differs from the input
C1_Witness ==
    \E i \in Procs :
        /\ Submitted(i)
        /\ c[i].noMerge
        /\ c[i].ruleID = "43cb72df-a"
        /\ submitted[i].ID = IdA
        /\ submitted[i].IDPName = "k8s"

\* C2: in merge mode roleBindType and selector are the passed value exactly
\* when the flag was passed (empty or not), and the fetched value when it was
\* not passed; the default "service" never overwrites the stored bind type.
C2_PresenceDecides ==
    \A i \in Procs :
        (Submitted(i) /\ ~c[i].noMerge) =>
            /\ submitted[i].Selector =
                 IF "selector" \in c[i].flags THEN c[i].selector
                 ELSE fetched[i].Selector
            /\ submitted[i].RoleBindType =
                 IF "role-bind-type" \in c[i].flags THEN c[i].roleBindType
                 ELSE fetched[i].RoleBindType

\* -selector="" clears "x==1" while the stored bind type survives the default
C2_Witness ==
    \E i \in Procs :
        /\ Submitted(i) /\ ~c[i].noMerge
        /\ "selector" \in c[i].flags /\ c[i].selector = ""
        /\ fetched[i].Selector = "x==1" /\ submitted[i].Selector = ""
        /\ "role-bind-type" \notin c[i].flags
        /\ c[i].roleBindType = "service"
        /\ submitted[i].RoleBindType = "existing"

\* C3: in merge mode description and roleName are the given string when it is
\* not empty and the fetched value when it is empty, whether or not the flag
\* was passed; so neither can be cleared.
C3_NonEmptyDecides ==
    \A i \in Procs :
        (Submitted(i) /\ ~c[i].noMerge) =>
            /\ submitted[i].Description =
                 IF c[i].description # "" THEN c[i].description
                 ELSE fetched[i].Description
            /\ submitted[i].RoleName =
                 IF c[i].roleName # "" THEN c[i].roleName
                 ELSE fetched[i].RoleName
            /\ fetched[i].Description # "" => submitted[i].Description # ""
            /\ fetched[i].RoleName # "" => submitted[i].RoleName # ""

\* -description="" and -role-name="" are passed and change nothing
C3_Witness ==
    \E i \in Procs :
        /\ Submitted(i) /\ ~c[i].noMerge
        /\ {"description", "role-name"} \subseteq c[i].flags
        /\ c[i].description = "" /\ c[i].roleName = ""
        /\ submitted[i].Description = "old"
        /\ submitted[i].RoleName = "old-role"

\* C4 as stated: in overwrite mode every optional field that was not passed
\* is the empty string in the submitted record.
C4_UnsetIsZero ==
    \A i \in Procs :
        (Submitted(i) /\ c[i].noMerge) =>
            /\ "description" \notin c[i].flags => submitted[i].Description = ""
            /\ "role-bind-type" \notin c[i].flags => submitted[i].RoleBindType = ""
            /\ "selector" \notin c[i].flags => submitted[i].Selector = ""

\* C4 amended: in overwrite mode a description or selector that was not passed
\* is the empty string, and a roleBindType that was not passed is the flag's
\* default "service", whatever the fetched record holds.
C4_UnsetIsFlagDefault ==
    \A i \in Procs :
        (Submitted(i) /\ c[i].noMerge) =>
            /\ "description" \notin c[i].flags => submitted[i].Description = ""
            /\ "role-bind-type" \notin c[i].flags =>
                   submitted[i].RoleBindType = BindingRuleRoleBindTypeService
            /\ "selector" \notin c[i].flags => submitted[i].Selector = ""

\* an overwrite with only -role-name, over a record with every field filled
C4_Witness ==
    \E i \in Procs :
        /\ Submitted(i) /\ c[i].noMerge
        /\ c[i].flags = {"role-name"}
        /\ fetched[i].Description = "old"
        /\ fetched[i].RoleBindType = "existing"
        /\ fetched[i].Selector = "x==1"
        /\ submitted[i].Description = ""
        /\ submitted[i].RoleBindType = "service"
        /\ submitted[i].Selector = ""

\* C5: over the listed candidates the non-empty partial id is a case-sensitive
\* prefix: no match ends in NotFound, two or more in AmbiguousPrefix, exactly
\* one resolves to it, and the read and the update use the resolved id.
C5_Resolution ==
    \A i \in Procs :
        listed[i] # <<>> =>
            LET m == {id \in listed[i][1] :
                        /\ Len(c[i].ruleID) <= Len(id)
                        /\ SubSeq(id, 1, Len(c[i].ruleID)) = c[i].ruleID}
            IN  /\ c[i].ruleID # ""
                /\ m = {} => (ret[i] = 1 /\ err[i] = "NotFound" /\ ruleID[i] = "")
                /\ Cardinality(m) >= 2 =>
                       (ret[i] = 1 /\ err[i] = "AmbiguousPrefix" /\ ruleID[i] = "")
                /\ Cardinality(m) = 1 =>
                       /\ ruleID[i] \in m
                       /\ "read" \in {calls[i][k] : k \in 1..Len(calls[i])} =>
                              readArg[i] = ruleID[i]
                       /\ Submitted(i) => submitted[i].ID = ruleID[i]
                /\ c[i].ruleID = "43CB72DF" => err[i] = "NotFound"
                /\ (c[i].ruleID = "43cb72df" /\ listed[i][1] = {IdA, IdB}) =>
                       err[i] = "AmbiguousPrefix"

\* "43cb72df" over the single candidate resolves, is read and is submitted
C5_Witness ==
    \E i \in Procs :
        /\ c[i].ruleID = "43cb72df"
        /\ listed[i] = <<{IdA}>>
        /\ readArg[i] = IdA
        /\ Submitted(i)
        /\ submitted[i].ID = IdA

C7_Pipeline ==
    /\ \A i \in Procs :
        /\ Len(calls[i]) <= 3
        /\ calls[i] = SubSeq(<<"list", "read", "update">>, 1, Len(calls[i]))
        /\ Cardinality(WritesBy(i)) <= 1
        /\ WritesBy(i) # {} => Len(calls[i]) = 3
        /\ Submitted(i) <=> Len(calls[i]) = 3
        /\ Len(calls[i]) = 3 =>
               /\ pc[i] = "done"
               /\ c[i].parseOK
               /\ c[i].ruleID # ""
               /\ listed[i] # <<>>
               /\ ruleID[i] \in listed[i][1]
               /\ readArg[i] = ruleID[i]
               /\ fetched[i] # NilRule
               /\ ~(c[i].noMerge /\ c[i].roleName = "")
    /\ (envOps = 0 /\ \A i \in Procs : ret[i] # 0) => store = store0

\* the rule vanished between list and read: two calls, no update, store as left
C7_Witness ==
    \E i \in Procs :
        /\ pc[i] = "done"
        /\ calls[i] = <<"list", "read">>
        /\ fetched[i] = NilRule
        /\ err[i] = "NotFound"
        /\ ~Submitted(i)
        /\ WritesBy(i) = {}

\* C8: Run returns 0 exactly when its update was accepted, and 1 after a parse
\* error, a missing id, a failed resolution, a failed or empty read, a missing
\* role name under -no-merge, and a rejected update.
C8_ExitStatus ==
    \A i \in Procs :
        /\ pc[i] # "done" => ret[i] = -1
        /\ pc[i] = "done" =>
               /\ ret[i] \in {0, 1}
               /\ ret[i] = 0 <=> WritesBy(i) # {}
               /\ ret[i] = 0 <=> err[i] = ""
               /\ ~c[i].parseOK => ret[i] = 1
               /\ c[i].ruleID = "" => ret[i] = 1
               /\ ruleID[i] = "" => ret[i] = 1
               /\ fetched[i] = NilRule => ret[i] = 1
               /\ (c[i].noMerge /\ c[i].roleName = "") => ret[i] = 1

\* the update call was made and rejected
C8_Witness ==
    \E i \in Procs :
        /\ pc[i] = "done"
        /\ calls[i] = <<"list", "read", "update">>
        /\ err[i] = "UpdateError"
        /\ ret[i] = 1

\* C9: the submitted merge plan is the merge of the fetched record, and
\* merging the same command line into the plan again changes nothing.
C9_MergeIdempotent ==
    \A i \in Procs :
        (Submitted(i) /\ ~c[i].noMerge) =>
            /\ submitted[i] = MergeRule(fetched[i], c[i])
            /\ MergeRule(submitted[i], c[i]) = submitted[i]

\* a merge that changed the description and the selector of the fetched record
C9_Witness ==
    \E i \in Procs :
        /\ Submitted(i) /\ ~c[i].noMerge
        /\ c[i].description = "new desc"
        /\ "selector" \in c[i].flags
        /\ submitted[i] # fetched[i]
        /\ submitted[i].Description = "new desc"

\* the fields a merge-mode command line changes, with the values it sets
Touched(cmd) ==
    (IF cmd.description # "" THEN {"Description"} ELSE {}) \cup
    (IF cmd.roleName # "" THEN {"RoleName"} ELSE {}) \cup
    (IF "role-bind-type" \in cmd.flags THEN {"RoleBindType"} ELSE {}) \cup
    (IF "selector" \in cmd.flags THEN {"Selector"} ELSE {})

Wanted(cmd) ==
    [Description |-> cmd.description, RoleName |-> cmd.roleName,
     RoleBindType |-> cmd.roleBindType, Selector |-> cmd.selector]

\* two merge-mode runs whose updates of the same rule were both accepted and
\* that change different fields; k1 and k2 are their places in the write log
MergedBoth(k1, k2) ==
    LET i == writes[k1].by
        j == writes[k2].by
    IN  /\ k1 < k2
        /\ ~c[i].noMerge /\ ~c[j].noMerge
        /\ writes[k1].rule.ID = writes[k2].rule.ID
        /\ Touched(c[i]) # {} /\ Touched(c[j]) # {}
        /\ Touched(c[i]) \cap Touched(c[j]) = {}
        /\ \A k \in (k2 + 1)..Len(writes) : writes[k].rule.ID # writes[k2].rule.ID

HasBoth(k1, k2) ==
    \A k \in {k1, k2} :
        \A f \in Touched(c[writes[k].by]) :
            writes[k2].rule[f] = Wanted(c[writes[k].by])[f]

\* C10 as stated: after two concurrent merge-mode runs on the same rule that
\* touch different fields, the rule last stored holds both runs' changes.
C10_BothChangesKept ==
    \A k1, k2 \in 1..Len(writes) : MergedBoth(k1, k2) => HasBoth(k1, k2)

\* C10 amended: every merge-mode update writes, for the fields its user did
\* not touch, the values its own read returned; so the rule last stored holds
\* both runs' changes when the later update's read came after the earlier
\* update, and otherwise the later update writes the earlier field back stale.
C10_BothChangesKeptWhenSerial ==
    /\ \A i \in Procs :
        (Submitted(i) /\ ~c[i].noMerge) =>
            \A f \in {"Description", "RoleName", "RoleBindType", "Selector"}
                        \ Touched(c[i]) :
                submitted[i][f] = fetched[i][f]
    /\ \A k1, k2 \in 1..Len(writes) :
        (/\ MergedBoth(k1, k2)
         /\ fetched[writes[k2].by].ModifyIndex >= writes[k1].rule.ModifyIndex)
            => HasBoth(k1, k2)

\* one run set the selector, the other then read it and set the description
C10_Witness ==
    \E k1, k2 \in 1..Len(writes) :
        /\ MergedBoth(k1, k2)
        /\ fetched[writes[k2].by].ModifyIndex >= writes[k1].rule.ModifyIndex
        /\ pc[writes[k1].by] = "done" /\ pc[writes[k2].by] = "done"
        /\ writes[k2].rule.ID \in DOMAIN store
        /\ store[writes[k2].rule.ID].Selector = "x==2"
        /\ store[writes[k2].rule.ID].Description = "new desc"

====
